---- MODULE Spec2Model ----
(***************************************************************************)
(* A model of action/eleventy/data.js: one pass of prepareEleventyData     *)
(* over a tree of feed files (prepareDirectories, createRepositoryData,    *)
(* createCategoryData / createSitesData / createEntryData,                 *)
(* createAllEntriesData) followed by loadEntryWithPuppeteer, the           *)
(* reconciliation of the readability cache against the entries store.      *)
(*                                                                         *)
(* Files hold the value that JSON.stringify wrote; JSON.parse of a file    *)
(* the program wrote gives that value back, and a feed file that does not  *)
(* parse is a body with valid = FALSE.  Strings are TLA+ strings, so the   *)
(* template literals and the slicing of ".json" are computed as written.   *)
(*                                                                         *)
(* Two specifications share the actions:                                   *)
(*   SpecData  the data pipeline alone, over every feed tree of the bounds *)
(*   Spec      the whole pass, run up to MaxRuns times on one file system, *)
(*             over a few feed trees and every prior workspace cache.      *)
(***************************************************************************)
EXTENDS Integers, Sequences, FiniteSets, TLC

VARIABLES
    dirs,              \* the directories that exist
    contents,          \* FEEDS_CONTENT_PATH: <<[name, sites: <<[file, body]>>]>> in readdir order
    repositoryJson,    \* REPOSITORY_DATA_PATH: <<>> or <<data>>
    entriesStore,      \* ENTRIES_DATA_PATH: file name -> EntryData
    sitesStore,        \* SITES_DATA_PATH: file name -> SiteDataWithEntries
    categoryStore,     \* CATEGORY_DATA_PATH: file name -> entries
    embeddedIndex,     \* EMBEDDED_DATA_PATH/categories.json: <<>> or <<text>>
    dataIndex,         \* DATA_PATH/categories.json: <<>> or <<text>>
    allJson,           \* DATA_PATH/all.json: <<>> or <<entries>>
    readabilityCache,  \* READABILITY_CACHE_PATH: file name -> cache record
    workspaceCache,    \* WORKSPACE_READABILITY_CACHE_PATH: set of file names
    pc,                \* the position of prepareEleventyData
    run,               \* the number of the pass on this file system
    steps,             \* the steps of prepareEleventyData this pass has entered
    failed,            \* core.setFailed: <<>> or <<error>>
    thrown,            \* the error caught by prepareEleventyData: <<>> or <<error>>
    catIdx,            \* createCategoryData: index of `category` in `categories`
    siteIdx,           \* createSitesData: index of `site` in `sites`
    sitesData,         \* createSitesData: `result`
    categoriesData,    \* createCategoryData: `categoriesData`
    entries,           \* `entries`: the last readdirSync(ENTRIES_DATA_PATH)
    idx,               \* loadEntryWithPuppeteer: index of `entryHashFile` in `entries`
    content,           \* loadEntryWithPuppeteer: `content`, <<>> or <<value>>
    pageOpen,          \* the puppeteer page: opened by loadContent, released by close
    cache0,            \* the workspace cache as the pass found it
    evicted,           \* the cache files this pass unlinked
    trace,             \* per entry file, what the loop of this pass did with it
    fetched,           \* per entry file, what loadContent gave in this pass
    fetches            \* per entry file, the loadContent calls of this pass

vars == <<dirs, contents, repositoryJson, entriesStore, sitesStore, categoryStore,
          embeddedIndex, dataIndex, allJson, readabilityCache, workspaceCache,
          pc, run, steps, failed, thrown, catIdx, siteIdx, sitesData,
          categoriesData, entries, idx, content, pageOpen, cache0, evicted,
          trace, fetched, fetches>>

fsVars == <<dirs, contents, repositoryJson, entriesStore, sitesStore, categoryStore,
            embeddedIndex, dataIndex, allJson, readabilityCache, workspaceCache>>

-----------------------------------------------------------------------------
(* Bounds of the model. *)

MaxEntries == 2      \* entries of the main site feed
MaxOther == 1        \* entries of the second site feed
MaxDate == 2         \* publication dates are 1..MaxDate
MaxRuns == 2         \* passes over one file system

-----------------------------------------------------------------------------
(* JavaScript values that are thrown and compared. *)

JsString(s) == [type |-> "string", val |-> s]
FsError(code) == [type |-> "Error", val |-> code]
SyntaxError == [type |-> "SyntaxError", val |-> "Unexpected token"]

\* line 385: error !== 'ENOENT'.  A mutant compares the code of the error.
NotENOENTByCode(error) == error.val # "ENOENT"
NotENOENT(error) == error # JsString("ENOENT")

-----------------------------------------------------------------------------
(* Strings, hashes and file names. *)

DotJson == ".json"

\* crypto sha256 digest: deterministic, and taken to be injective
createHash(input) == "sha256(" \o input \o ")"

\* `${hash}.json`
JsonFile(hash) == hash \o DotJson

\* name.slice(0, name.length - '.json'.length)
StripJson(name) == SubSeq(name, 1, Len(name) - Len(DotJson))

\* `${entry.title},${entry.link}`
EntryKey(entry) == entry.title \o "," \o entry.link

\* the file a store holds under name f after writeFileSync(f, data).  A
\* mutant keeps a file that is already there.
WriteFileKeep(store, f, data) == store @@ (f :> data)
WriteFile(store, f, data) == (f :> data) @@ store

Range(s) == {s[i] : i \in DOMAIN s}

\* readdirSync gives the names of a directory in an order the file system chooses
Enumerations(names) ==
    {s \in [1..Cardinality(names) -> names] : Range(s) = names}

-----------------------------------------------------------------------------
(* Array.prototype.sort((a, b) => b.date - a.date): a stable insertion sort *)
(* driven by the comparator.                                                *)

CompareAscending(a, b) == a.date - b.date
Compare(a, b) == b.date - a.date

RECURSIVE Insert(_, _)
Insert(s, x) ==
    IF s = <<>> THEN <<x>>
    ELSE IF Compare(s[Len(s)], x) <= 0 THEN Append(s, x)
    ELSE Append(Insert(SubSeq(s, 1, Len(s) - 1), x), s[Len(s)])

RECURSIVE SortByDate(_)
SortByDate(s) ==
    IF s = <<>> THEN <<>>
    ELSE Insert(SortByDate(SubSeq(s, 1, Len(s) - 1)), s[Len(s)])

-----------------------------------------------------------------------------
(* createRepositoryData *)

\* githubRootName.split('/'), from position i on, `from` being the start of
\* the segment in hand
RECURSIVE SplitFrom(_, _, _)
SplitFrom(s, from, i) ==
    IF i > Len(s) THEN <<SubSeq(s, from, Len(s))>>
    ELSE IF SubSeq(s, i, i) = "/"
         THEN <<SubSeq(s, from, i - 1)>> \o SplitFrom(s, i + 1, i + 1)
         ELSE SplitFrom(s, from, i + 1)

Split(s) == SplitFrom(s, 1, 1)

RepositoryData(githubRootName, customDomainName) ==
    LET isCustomDomainEnabled == customDomainName # ""
        parts == Split(githubRootName)
    IN [repository |->
            IF ~isCustomDomainEnabled /\ Len(parts) > 1
            THEN "/" \o parts[2] ELSE ""]

-----------------------------------------------------------------------------
(* createEntryData and createSitesData *)

EntryData(category, siteTitle, siteHash, entry) ==
    [title |-> entry.title, link |-> entry.link, date |-> entry.date,
     author |-> entry.author, siteTitle |-> siteTitle, siteHash |-> siteHash,
     entryHash |-> createHash(EntryKey(entry)), category |-> category]

\* the summary that createSitesData keeps of an entry (lines 209-218)
SiteEntry(entryData, category, siteTitle, siteHash) ==
    [title |-> entryData.title, link |-> entryData.link, date |-> entryData.date,
     author |-> entryData.author, category |-> category, siteTitle |-> siteTitle,
     siteHash |-> siteHash, entryHash |-> entryData.entryHash]

\* site.substring(0, site.length - '.json'.length), hashed
SiteHash(site) == createHash(StripJson(site))

\* json.entries.map(...) before the sort
MappedEntries(category, site, json) ==
    [i \in DOMAIN json.entries |->
        SiteEntry(EntryData(category, json.title, SiteHash(site), json.entries[i]),
                  category, json.title, SiteHash(site))]

\* the entries store after createEntryData of every entry of the feed, in order
RECURSIVE WriteEntries(_, _, _, _)
WriteEntries(store, category, site, json) ==
    IF json.entries = <<>> THEN store
    ELSE LET n == Len(json.entries)
             before == [json EXCEPT !.entries = SubSeq(json.entries, 1, n - 1)]
             data == EntryData(category, json.title, SiteHash(site), json.entries[n])
         IN WriteFile(WriteEntries(store, category, site, before),
                      JsonFile(data.entryHash), data)

SiteRecord(category, site, json) ==
    [title |-> json.title, link |-> json.link, updatedAt |-> json.updatedAt,
     siteHash |-> SiteHash(site),
     entries |-> SortByDate(MappedEntries(category, site, json))]

\* lines 339-344
SiteSummary(data) ==
    [title |-> data.title, link |-> data.link, updatedAt |-> data.updatedAt,
     siteHash |-> data.siteHash]

\* sitesData.reduce((entries, site) => [...entries, ...site.entries], [])
RECURSIVE ConcatEntries(_)
ConcatEntries(list) ==
    IF list = <<>> THEN <<>>
    ELSE ConcatEntries(SubSeq(list, 1, Len(list) - 1)) \o list[Len(list)].entries

\* the projection of createAllEntriesData (lines 241-250)
AllEntry(json) ==
    [title |-> json.title, link |-> json.link, date |-> json.date,
     author |-> json.author, siteTitle |-> json.siteTitle, siteHash |-> json.siteHash,
     entryHash |-> json.entryHash, category |-> json.category]

-----------------------------------------------------------------------------
(* The feed trees. *)

Titles == {"E1", "E2"}
Links == {"https://a/1"}
Authors == {"x"}

RawEntries == [title : Titles, link : Links, date : 1..MaxDate, author : Authors]

Feeds(n) == UNION {[1..k -> RawEntries] : k \in 0..n}

SiteBody(title, feed) ==
    [valid |-> TRUE, title |-> title, link |-> "https://" \o title,
     updatedAt |-> 1, entries |-> feed]

Malformed ==
    [valid |-> FALSE, title |-> "", link |-> "", updatedAt |-> 0, entries |-> <<>>]

SiteFileOf(file, body) == [file |-> file, body |-> body]
CategoryOf(name, sites) == [name |-> name, sites |-> sites]

MainBodies == {SiteBody("A", f) : f \in Feeds(MaxEntries)}
OtherBodies == {Malformed} \cup {SiteBody("B", f) : f \in Feeds(MaxOther)}

\* two sites in one category, in either order, or one site in each of two
\* categories under the same file name
Shapes == {"main first", "main second", "two categories"}

DataTree(shape, m, o) ==
    CASE shape = "main first" ->
            <<CategoryOf("tech", <<SiteFileOf("a.json", m), SiteFileOf("b.json", o)>>)>>
      [] shape = "main second" ->
            <<CategoryOf("tech", <<SiteFileOf("a.json", o), SiteFileOf("b.json", m)>>)>>
      [] OTHER ->
            <<CategoryOf("tech", <<SiteFileOf("a.json", m)>>),
              CategoryOf("news", <<SiteFileOf("a.json", o)>>)>>

\* the entries of the reconciliation scenarios: A has left the feeds
EntryA == [title |-> "A", link |-> "https://a/a", date |-> 1, author |-> "x"]
EntryB == [title |-> "B", link |-> "https://a/b", date |-> 2, author |-> "x"]
EntryC == [title |-> "C", link |-> "https://a/c", date |-> 2, author |-> "x"]
EntryD == [title |-> "D", link |-> "https://a/d", date |-> 1, author |-> "x"]

EntryFile(entry) == JsonFile(createHash(EntryKey(entry)))

FullFeeds == {<<>>, <<EntryB>>, <<EntryB, EntryC>>, <<EntryB, EntryC, EntryD>>}

FullTrees ==
    {<<CategoryOf("tech", <<SiteFileOf("a.json", SiteBody("A", f))>>)>> : f \in FullFeeds}
    \cup {<<CategoryOf("tech", <<SiteFileOf("a.json", SiteBody("A", <<EntryB>>)),
                                 SiteFileOf("b.json", Malformed)>>)>>}

PriorCaches == SUBSET {EntryFile(EntryA), EntryFile(EntryB), EntryFile(EntryC)}

-----------------------------------------------------------------------------
(* The state before the first pass: the action's data directories are not  *)
(* there yet, the workspace holds the feeds and the cache of earlier runs. *)

InitPass ==
    /\ pc = "prepareDirectories"
    /\ steps = {}
    /\ failed = <<>>
    /\ thrown = <<>>
    /\ catIdx = 1
    /\ siteIdx = 1
    /\ sitesData = <<>>
    /\ categoriesData = <<>>
    /\ entries = <<>>
    /\ idx = 1
    /\ content = <<>>
    /\ pageOpen = FALSE
    /\ evicted = {}
    /\ trace = <<>>
    /\ fetched = <<>>
    /\ fetches = <<>>

InitFiles ==
    /\ repositoryJson = <<>>
    /\ entriesStore = <<>>
    /\ sitesStore = <<>>
    /\ categoryStore = <<>>
    /\ embeddedIndex = <<>>
    /\ dataIndex = <<>>
    /\ allJson = <<>>
    /\ readabilityCache = <<>>

InitData ==
    /\ InitPass
    /\ InitFiles
    /\ run = 1
    /\ \/ /\ \E shape \in Shapes, m \in MainBodies, o \in OtherBodies :
                contents = DataTree(shape, m, o)
          /\ dirs = {"contents", "workspace"}
       \/ /\ contents = <<>>
          /\ dirs = {"workspace"}
    /\ workspaceCache = {}
    /\ cache0 = workspaceCache

Init ==
    /\ InitPass
    /\ InitFiles
    /\ run = 1
    /\ \/ /\ contents \in FullTrees
          /\ \/ dirs = {"contents", "workspace"} /\ workspaceCache \in PriorCaches
             \/ dirs = {"contents"} /\ workspaceCache = {}
       \/ /\ contents = <<>>
          /\ dirs = {"workspace"}
          /\ workspaceCache = {}
    /\ cache0 = workspaceCache

-----------------------------------------------------------------------------
(* prepareEleventyData, lines 364-390 *)

passVars == <<catIdx, siteIdx, sitesData, categoriesData, entries, idx, content,
              pageOpen, cache0, evicted, trace, fetched, fetches>>

\* the catch block of prepareEleventyData for an error thrown by a step
Catch(error) ==
    /\ thrown' = <<error>>
    /\ IF NotENOENT(error)
       THEN /\ failed' = <<error>>
            /\ pc' = "rejected"
       ELSE /\ UNCHANGED failed
            /\ pc' = "resolved"

CreatedDirs == {"embedded", "categories", "sites", "entries", "readability"}

PrepareDirectories ==
    /\ pc = "prepareDirectories"
    /\ steps' = steps \cup {"prepareDirectories"}
    /\ IF "contents" \notin dirs
       THEN /\ Catch(FsError("ENOENT"))
            /\ UNCHANGED dirs
       ELSE \/ /\ dirs' = dirs \cup CreatedDirs
               /\ pc' = "createRepositoryData"
               /\ UNCHANGED <<failed, thrown>>
            \/ /\ Catch(FsError("EACCES"))
               /\ UNCHANGED dirs
    /\ UNCHANGED <<contents, repositoryJson, entriesStore, sitesStore, categoryStore,
                   embeddedIndex, dataIndex, allJson, readabilityCache,
                   workspaceCache, run>>
    /\ UNCHANGED passVars

GithubRootNames == {"llun", "llun/feeds", "llun/feeds/x"}
CustomDomainNames == {"", "feeds.example.org"}

CreateRepositoryData ==
    /\ pc = "createRepositoryData"
    /\ steps' = steps \cup {"createRepositoryData"}
    /\ \E githubRootName \in GithubRootNames, customDomainName \in CustomDomainNames :
          repositoryJson' = <<RepositoryData(githubRootName, customDomainName)>>
    /\ pc' = "createCategoryData"
    /\ UNCHANGED <<dirs, contents, entriesStore, sitesStore, categoryStore,
                   embeddedIndex, dataIndex, allJson, readabilityCache,
                   workspaceCache, run, failed, thrown>>
    /\ UNCHANGED passVars

\* `result` of createSitesData at the site it is about to process
CurrentSitesData == IF siteIdx = 1 THEN <<>> ELSE sitesData

\* one iteration of the loop of createSitesData (lines 183-227)
CreateSiteData ==
    /\ pc = "createCategoryData"
    /\ catIdx <= Len(contents)
    /\ siteIdx <= Len(contents[catIdx].sites)
    /\ steps' = steps \cup {"createCategoryData"}
    /\ LET category == contents[catIdx].name
           site == contents[catIdx].sites[siteIdx].file
           json == contents[catIdx].sites[siteIdx].body
           data == SiteRecord(category, site, json)
       IN IF ~json.valid
          THEN /\ Catch(SyntaxError)
               /\ UNCHANGED <<entriesStore, sitesStore, sitesData, siteIdx>>
          ELSE /\ entriesStore' = WriteEntries(entriesStore, category, site, json)
               /\ sitesStore' = WriteFile(sitesStore, JsonFile(data.siteHash), data)
               /\ sitesData' = Append(CurrentSitesData, data)
               /\ siteIdx' = siteIdx + 1
               /\ UNCHANGED <<pc, failed, thrown>>
    /\ UNCHANGED <<dirs, contents, repositoryJson, categoryStore, embeddedIndex,
                   dataIndex, allJson, readabilityCache, workspaceCache, run>>
    /\ UNCHANGED <<catIdx, categoriesData, entries, idx, content, pageOpen, cache0,
                   evicted, trace, fetched, fetches>>

\* the rest of an iteration of createCategoryData (lines 336-356)
WriteCategoryEntries ==
    /\ pc = "createCategoryData"
    /\ catIdx <= Len(contents)
    /\ siteIdx > Len(contents[catIdx].sites)
    /\ steps' = steps \cup {"createCategoryData"}
    /\ LET category == contents[catIdx].name
           categoryData == [name |-> category,
                            sites |-> [i \in DOMAIN CurrentSitesData |->
                                          SiteSummary(CurrentSitesData[i])]]
           categoryEntries == SortByDate(ConcatEntries(CurrentSitesData))
       IN /\ categoriesData' = Append(categoriesData, categoryData)
          /\ categoryStore' = WriteFile(categoryStore, JsonFile(category), categoryEntries)
    /\ sitesData' = CurrentSitesData
    /\ catIdx' = catIdx + 1
    /\ siteIdx' = 1
    /\ UNCHANGED <<dirs, contents, repositoryJson, entriesStore, sitesStore,
                   embeddedIndex, dataIndex, allJson, readabilityCache,
                   workspaceCache, run, pc, failed, thrown>>
    /\ UNCHANGED <<entries, idx, content, pageOpen, cache0, evicted, trace, fetched,
                   fetches>>

\* lines 358-360
WriteCategoryIndex ==
    /\ pc = "createCategoryData"
    /\ catIdx > Len(contents)
    /\ steps' = steps \cup {"createCategoryData"}
    /\ embeddedIndex' = <<categoriesData>>
    /\ dataIndex' = <<categoriesData>>
    /\ pc' = "createAllEntriesData"
    /\ UNCHANGED <<dirs, contents, repositoryJson, entriesStore, sitesStore,
                   categoryStore, allJson, readabilityCache, workspaceCache, run,
                   failed, thrown>>
    /\ UNCHANGED passVars

\* lines 231-256; the write of all.json fails when the disk is full
CreateAllEntriesData ==
    /\ pc = "createAllEntriesData"
    /\ steps' = steps \cup {"createAllEntriesData"}
    /\ \E order \in Enumerations(DOMAIN entriesStore) :
          /\ entries' = order
          /\ \/ /\ allJson' = <<SortByDate([i \in DOMAIN order |->
                                               AllEntry(entriesStore[order[i]])])>>
                /\ pc' = "loadEntryWithPuppeteer"
                /\ UNCHANGED <<failed, thrown>>
             \/ /\ Catch(FsError("ENOSPC"))
                /\ UNCHANGED allJson
    /\ UNCHANGED <<dirs, contents, repositoryJson, entriesStore, sitesStore,
                   categoryStore, embeddedIndex, dataIndex, readabilityCache,
                   workspaceCache, run>>
    /\ UNCHANGED <<catIdx, siteIdx, sitesData, categoriesData, idx, content, pageOpen,
                   cache0, evicted, trace, fetched, fetches>>

NextData ==
    \/ PrepareDirectories
    \/ CreateRepositoryData
    \/ CreateSiteData
    \/ WriteCategoryEntries
    \/ WriteCategoryIndex
    \/ CreateAllEntriesData

SpecData == InitData /\ [][NextData]_vars


-----------------------------------------------------------------------------
(* loadEntryWithPuppeteer, lines 258-321 *)

JsNull == [type |-> "null", val |-> ""]

\* what loadContent can resolve to: null, an empty page, a page, a page that
\* html-minifier cannot parse
GoodPage == "<p> a </p><!-- c -->"
BadPage == "<p"
LoadResults == {JsNull, JsString(""), JsString(GoodPage), JsString(BadPage)}

\* line 298: !content.  A mutant takes only null for no content.
FalsyNullOnly(value) == value.type = "null"
Falsy(value) == value.type = "null" \/ value.val = ""

\* htmlmin.minify(content, {useShortDoctype, removeComments, collapseWhitespace})
\* on the pages of LoadResults; it throws on BadPage
MinifyThrows(text) == text = BadPage
Minify(text) == IF text = GoodPage THEN "<p>a</p>" ELSE text

\* {...json, content: minifyContent}
CacheRecord(json, minifyContent) ==
    [title |-> json.title, link |-> json.link, date |-> json.date,
     author |-> json.author, siteTitle |-> json.siteTitle, siteHash |-> json.siteHash,
     entryHash |-> json.entryHash, category |-> json.category,
     content |-> minifyContent]

\* `entryHashFile`, `entryHash` and the two paths of the entry in hand
EntryHashFile == entries[idx]
EntryHash == StripJson(EntryHashFile)
ReadabilityFile == JsonFile(EntryHash)     \* under READABILITY_CACHE_PATH
WorkspaceFile == JsonFile(EntryHash)       \* under WORKSPACE_READABILITY_CACHE_PATH

\* lines 259-268
EvictOldCaches ==
    /\ pc = "loadEntryWithPuppeteer"
    /\ steps' = steps \cup {"loadEntryWithPuppeteer"}
    /\ \E order \in Enumerations(DOMAIN entriesStore) :
          /\ entries' = order
          /\ IF "workspace" \notin dirs
             THEN /\ Catch(FsError("ENOENT"))
                  /\ UNCHANGED <<workspaceCache, evicted, trace, fetched, fetches>>
             ELSE LET previousSet == workspaceCache \ Range(order)
                  IN /\ workspaceCache' = workspaceCache \ previousSet
                     /\ evicted' = previousSet
                     /\ trace' = [f \in Range(order) |-> "none"]
                     /\ fetched' = [f \in Range(order) |-> "none"]
                     /\ fetches' = [f \in Range(order) |-> 0]
                     /\ pc' = "entry"
                     /\ UNCHANGED <<failed, thrown>>
    /\ idx' = 1
    /\ UNCHANGED <<dirs, contents, repositoryJson, entriesStore, sitesStore,
                   categoryStore, embeddedIndex, dataIndex, allJson,
                   readabilityCache, run>>
    /\ UNCHANGED <<catIdx, siteIdx, sitesData, categoriesData, content, pageOpen,
                   cache0>>

\* `continue`
NextEntry ==
    /\ idx' = idx + 1
    /\ content' = <<>>
    /\ pc' = "entry"

\* lines 278-289: the record is looked for in the workspace cache
StatCache ==
    /\ pc = "entry"
    /\ idx <= Len(entries)
    /\ \/ /\ WorkspaceFile \in workspaceCache
          /\ trace' = [trace EXCEPT ![EntryHashFile] = "cached"]
          /\ NextEntry
       \/ /\ WorkspaceFile \notin workspaceCache
          /\ pc' = "load"
          /\ UNCHANGED <<trace, idx, content>>
       \/ /\ trace' = [trace EXCEPT ![EntryHashFile] = "staterr"]   \* EACCES
          /\ NextEntry
    /\ UNCHANGED fsVars
    /\ UNCHANGED <<run, steps, failed, thrown, catIdx, siteIdx, sitesData,
                   categoriesData, entries, pageOpen, cache0, evicted, fetched,
                   fetches>>

\* lines 290-297: loadContent(json) resolves or rejects; either way the
\* attempt holds the page until close()
LoadContent ==
    /\ pc = "load"
    /\ fetches' = [fetches EXCEPT ![EntryHashFile] = @ + 1]
    /\ pageOpen' = TRUE
    /\ \/ \E value \in LoadResults :
             /\ content' = <<value>>
             /\ fetched' = [fetched EXCEPT ![EntryHashFile] =
                                IF value = JsNull \/ value = JsString("")
                                THEN "nothing" ELSE "content"]
             /\ pc' = "loaded"
       \/ /\ fetched' = [fetched EXCEPT ![EntryHashFile] = "threw"]
          /\ pc' = "catch"
          /\ UNCHANGED content
    /\ UNCHANGED fsVars
    /\ UNCHANGED <<run, steps, failed, thrown, catIdx, siteIdx, sitesData,
                   categoriesData, entries, idx, cache0, evicted, trace>>

\* lines 298-302.  A mutant goes on to the next entry without close().
SkipNoContentNoClose ==
    /\ pc = "loaded"
    /\ Falsy(content[1])
    /\ trace' = [trace EXCEPT ![EntryHashFile] = "skipped"]
    /\ NextEntry
    /\ UNCHANGED fsVars
    /\ UNCHANGED <<run, steps, failed, thrown, catIdx, siteIdx, sitesData,
                   categoriesData, entries, pageOpen, cache0, evicted, fetched,
                   fetches>>

SkipNoContent ==
    /\ pc = "loaded"
    /\ Falsy(content[1])
    /\ pageOpen' = FALSE                                          \* close()
    /\ trace' = [trace EXCEPT ![EntryHashFile] = "skipped"]
    /\ NextEntry
    /\ UNCHANGED fsVars
    /\ UNCHANGED <<run, steps, failed, thrown, catIdx, siteIdx, sitesData,
                   categoriesData, entries, cache0, evicted, fetched, fetches>>

\* lines 303-314; the minification throws on a page it cannot parse, the
\* write fails when the disk is full
MinifyAndWrite ==
    /\ pc = "loaded"
    /\ ~Falsy(content[1])
    /\ \/ /\ ~MinifyThrows(content[1].val)
          /\ readabilityCache' =
                WriteFile(readabilityCache, ReadabilityFile,
                          CacheRecord(entriesStore[EntryHashFile],
                                      Minify(content[1].val)))
          /\ pageOpen' = FALSE                                    \* close()
          /\ trace' = [trace EXCEPT ![EntryHashFile] = "written"]
          /\ NextEntry
       \/ /\ pc' = "catch"                                        \* ENOSPC
          /\ UNCHANGED <<readabilityCache, pageOpen, trace, idx, content>>
       \/ /\ MinifyThrows(content[1].val)
          /\ pc' = "catch"
          /\ UNCHANGED <<readabilityCache, pageOpen, trace, idx, content>>
    /\ UNCHANGED <<dirs, contents, repositoryJson, entriesStore, sitesStore,
                   categoryStore, embeddedIndex, dataIndex, allJson, workspaceCache>>
    /\ UNCHANGED <<run, steps, failed, thrown, catIdx, siteIdx, sitesData,
                   categoriesData, entries, cache0, evicted, fetched, fetches>>

\* lines 315-319.  A mutant releases the page and throws the error on.
CatchLoadErrorRethrow ==
    /\ pc = "catch"
    /\ pageOpen' = FALSE
    /\ trace' = [trace EXCEPT ![EntryHashFile] = "caught"]
    /\ Catch(FsError("EIO"))
    /\ UNCHANGED fsVars
    /\ UNCHANGED <<run, steps, catIdx, siteIdx, sitesData, categoriesData, entries,
                   idx, content, cache0, evicted, fetched, fetches>>

CatchLoadError ==
    /\ pc = "catch"
    /\ pageOpen' = FALSE                                          \* close()
    /\ trace' = [trace EXCEPT ![EntryHashFile] = "caught"]
    /\ NextEntry
    /\ UNCHANGED fsVars
    /\ UNCHANGED <<run, steps, failed, thrown, catIdx, siteIdx, sitesData,
                   categoriesData, entries, cache0, evicted, fetched, fetches>>

\* the loop is over: loadEntryWithPuppeteer and prepareEleventyData return
Return ==
    /\ pc = "entry"
    /\ idx > Len(entries)
    /\ pc' = "resolved"
    /\ UNCHANGED fsVars
    /\ UNCHANGED <<run, steps, failed, thrown>>
    /\ UNCHANGED passVars

\* the next build runs the pass again on the same file system
Rerun ==
    /\ pc \in {"resolved", "rejected"}
    /\ run < MaxRuns
    /\ run' = run + 1
    /\ pc' = "prepareDirectories"
    /\ steps' = {}
    /\ failed' = <<>>
    /\ thrown' = <<>>
    /\ catIdx' = 1
    /\ siteIdx' = 1
    /\ sitesData' = <<>>
    /\ categoriesData' = <<>>
    /\ entries' = <<>>
    /\ idx' = 1
    /\ content' = <<>>
    /\ pageOpen' = FALSE
    /\ cache0' = workspaceCache
    /\ evicted' = {}
    /\ trace' = <<>>
    /\ fetched' = <<>>
    /\ fetches' = <<>>
    /\ UNCHANGED fsVars

Next ==
    \/ NextData
    \/ EvictOldCaches
    \/ StatCache
    \/ LoadContent
    \/ SkipNoContent
    \/ MinifyAndWrite
    \/ CatchLoadError
    \/ Return
    \/ Rerun

Spec == Init /\ [][Next]_vars

-----------------------------------------------------------------------------
(* Notions the properties share. *)

AllSteps == {"prepareDirectories", "createRepositoryData", "createCategoryData",
             "createAllEntriesData", "loadEntryWithPuppeteer"}

PassOver == pc \in {"resolved", "rejected"}

\* the loop of loadEntryWithPuppeteer has been entered in this pass
Reconciling == "loadEntryWithPuppeteer" \in steps /\ "workspace" \in dirs

\* the entry files of the current pass
CurrentEntries == DOMAIN entriesStore

Count(s, e) == Cardinality({i \in DOMAIN s : s[i] = e})

IsDescending(s) == \A i, j \in DOMAIN s : i < j => s[i].date >= s[j].date

OfDate(s, d) == SelectSeq(s, LAMBDA e : e.date = d)

\* entries of one date stand in `out` in the order they have in `in`
KeepsOrder(out, in) ==
    /\ Len(out) = Len(in)
    /\ \A d \in {in[i].date : i \in DOMAIN in} \cup {out[i].date : i \in DOMAIN out} :
          OfDate(out, d) = OfDate(in, d)

SortedStable(out, in) == IsDescending(out) /\ KeepsOrder(out, in)

\* the entries of the feeds of a category, site after site, in feed order
RECURSIVE FeedOrder(_, _)
FeedOrder(cat, n) ==
    IF n = 0 THEN <<>>
    ELSE FeedOrder(cat, n - 1)
         \o MappedEntries(cat.name, cat.sites[n].file, cat.sites[n].body)

\* the entries of all feeds, category after category
RECURSIVE FeedOrderAll(_)
FeedOrderAll(n) ==
    IF n = 0 THEN <<>>
    ELSE FeedOrderAll(n - 1) \o FeedOrder(contents[n], Len(contents[n].sites))

\* the per-category entries files, one after the other
RECURSIVE CategoryFiles(_)
CategoryFiles(n) ==
    IF n = 0 THEN <<>>
    ELSE CategoryFiles(n - 1) \o categoryStore[JsonFile(contents[n].name)]

\* the pipeline has written all.json in this pass
Indexed == pc = "loadEntryWithPuppeteer"

-----------------------------------------------------------------------------
(* C1. Cache eviction correctness: when reconciliation has finished, the    *)
(* readability cache (the directory the reconciler lists and evicts from)   *)
(* holds no record of an identifier outside the current entry set, the      *)
(* prior records of current entries are still there, and an entry without   *)
(* a prior record has one exactly when its fetch returned content.          *)
C1_EvictionCorrectness ==
    (pc = "resolved" /\ Reconciling) =>
        /\ workspaceCache \subseteq CurrentEntries
        /\ (cache0 \ CurrentEntries) \cap workspaceCache = {}
        /\ (cache0 \cap CurrentEntries) \subseteq workspaceCache
        /\ \A f \in CurrentEntries \ cache0 :
              (f \in workspaceCache) <=> (fetched[f] = "content")

(* C2. Cache fill idempotence: loadContent is not called for an entry whose *)
(* cache record exists; an entry fetched and cached by one pass is not      *)
(* fetched by the next pass over the same entries.  An entry whose fetch is *)
(* under way, before this pass has written anything for it, has no record.  *)
C2_FillIdempotence ==
    \A f \in DOMAIN fetches :
        (fetches[f] > 0 /\ trace[f] = "none") =>
            /\ f \notin workspaceCache
            /\ f \notin DOMAIN readabilityCache

(* C3. Resource release: every loadContent call is followed by close()      *)
(* before the next entry is taken up or the pass ends; the page is held     *)
(* only between a loadContent call and the close() of the same entry.       *)
C3_ReleaseBeforeNext ==
    /\ pageOpen => (pc \in {"loaded", "catch"} /\ idx <= Len(entries))
    /\ pageOpen => fetches[entries[idx]] = 1
    /\ pc \in {"entry", "load", "resolved", "rejected"} => ~pageOpen

\* all three outcomes of loadContent have been released in one pass
C3_Witness ==
    /\ pc = "resolved"
    /\ ~pageOpen
    /\ \E f, g, h \in DOMAIN fetched :
          fetched[f] = "content" /\ fetched[g] = "nothing" /\ fetched[h] = "threw"

(* C4. Per-entry isolation: an error while enriching one entry (loadContent, *)
(* minification or the cache write throws, the existence check fails with   *)
(* another error than not-found) does not end the pass: every entry of the  *)
(* enumeration is processed and core.setFailed is not called.               *)
C4_Isolation ==
    Reconciling =>
        /\ pc # "rejected"
        /\ failed = <<>>
        /\ thrown = <<>>
        /\ pc \in {"entry", "load", "loaded", "catch", "resolved"}
        /\ \A i \in DOMAIN entries :
              (i < idx \/ pc = "resolved") => trace[entries[i]] # "none"
        /\ pc = "resolved" => idx = Len(entries) + 1

\* an entry failed and a later entry of the enumeration was still enriched
C4_Witness ==
    /\ pc = "resolved"
    /\ \E i, j, k \in DOMAIN entries :
          /\ i < j /\ j < k
          /\ trace[entries[i]] = "caught"
          /\ trace[entries[j]] = "staterr"
          /\ trace[entries[k]] = "written"

\* the step of the pass that was under way when it ended
LastStep ==
    IF "loadEntryWithPuppeteer" \in steps THEN "loadEntryWithPuppeteer"
    ELSE IF "createAllEntriesData" \in steps THEN "createAllEntriesData"
    ELSE IF "createCategoryData" \in steps THEN "createCategoryData"
    ELSE IF "createRepositoryData" \in steps THEN "createRepositoryData"
    ELSE "prepareDirectories"

StepsUpTo(step) ==
    CASE step = "prepareDirectories" -> {"prepareDirectories"}
      [] step = "createRepositoryData" -> {"prepareDirectories", "createRepositoryData"}
      [] step = "createCategoryData" -> AllSteps \ {"createAllEntriesData",
                                                    "loadEntryWithPuppeteer"}
      [] step = "createAllEntriesData" -> AllSteps \ {"loadEntryWithPuppeteer"}
      [] OTHER -> AllSteps

(* C5. Fatal errors abort the run: an error thrown by prepareDirectories,   *)
(* createCategoryData / createSitesData or createAllEntriesData, a          *)
(* not-found error and a JSON parse error included, is handed to            *)
(* core.setFailed and thrown on, and no later step of the pass is entered.  *)
C5_FatalAborts ==
    (thrown # <<>> /\ LastStep \in {"prepareDirectories", "createCategoryData",
                                    "createAllEntriesData"}) =>
        /\ pc = "rejected"
        /\ failed = thrown
        /\ steps = StepsUpTo(LastStep)
        /\ LastStep # "loadEntryWithPuppeteer" => trace = <<>> /\ evicted = {}
        /\ LastStep = "prepareDirectories" => repositoryJson = <<>> \/ run > 1
        /\ LastStep = "createCategoryData" => allJson = <<>> \/ run > 1

\* the feeds content directory is missing: statSync throws ENOENT
C5_Witness ==
    /\ pc = "rejected"
    /\ steps = {"prepareDirectories"}
    /\ "contents" \notin dirs
    /\ failed = <<FsError("ENOENT")>>

(* C6. First run: without a readability cache of an earlier run the pass    *)
(* takes the cache as empty: nothing is evicted, a fetch is attempted for   *)
(* every current entry, and the run is not reported as failed.              *)
C6_FirstRun ==
    (run = 1 /\ "workspace" \notin dirs /\ PassOver
        /\ "loadEntryWithPuppeteer" \in steps) =>
        /\ failed = <<>>
        /\ pc = "resolved"
        /\ evicted = {}
        /\ \A f \in CurrentEntries : f \in DOMAIN fetches /\ fetches[f] >= 1

\* loadContent gave no content for the entry in hand, or threw
FetchFailed(f) == f \in DOMAIN fetched /\ fetched[f] \in {"nothing", "threw"}

C7_State ==
    \A f \in DOMAIN fetched :
        /\ fetches[f] <= 1
        /\ FetchFailed(f) =>
              /\ trace[f] \in {"none", "skipped", "caught"}
              /\ f \notin workspaceCache
              /\ pc = "resolved" => trace[f] \in {"skipped", "caught"}

C7_Step ==
    (pc \in {"loaded", "catch"} /\ FetchFailed(entries[idx])) =>
        /\ readabilityCache' = readabilityCache
        /\ workspaceCache' = workspaceCache

(* C7. No cache write on a failed or empty fetch: when loadContent returns  *)
(* no content or throws, the pass writes no cache record for the entry and  *)
(* changes no other record, calls loadContent at most once for it, and      *)
(* leaves it without a record in the cache that the existence check reads,  *)
(* which is what makes the next pass fetch it again.                        *)
C7_NoWriteOnFailure == []C7_State /\ [][C7_Step]_vars

C7_Witness ==
    /\ pc = "resolved"
    /\ \E f, g \in DOMAIN fetched :
          /\ fetched[f] = "nothing" /\ trace[f] = "skipped"
          /\ fetched[g] = "threw" /\ trace[g] = "caught"
          /\ f \notin DOMAIN readabilityCache
          /\ g \notin DOMAIN readabilityCache

(* C8. Date-descending stable sort: the entries of every site record, every *)
(* per-category entries file and all.json are in descending order of date,  *)
(* and entries of equal date keep the order they had before the sort: feed  *)
(* order in a site, site order then feed order in a category, the           *)
(* enumeration order of the entries store in all.json.                      *)
C8_SortedStable ==
    /\ (pc = "createCategoryData" /\ catIdx <= Len(contents)) =>
          \A i \in 1..(siteIdx - 1) :
              LET cat == contents[catIdx]
                  site == cat.sites[i]
              IN SortedStable(sitesStore[JsonFile(SiteHash(site.file))].entries,
                              MappedEntries(cat.name, site.file, site.body))
    /\ (pc \in {"createCategoryData", "createAllEntriesData", "loadEntryWithPuppeteer"}) =>
          \A c \in 1..(catIdx - 1) :
              SortedStable(categoryStore[JsonFile(contents[c].name)],
                           FeedOrder(contents[c], Len(contents[c].sites)))
    /\ Indexed =>
          SortedStable(allJson[1],
                       [i \in DOMAIN entries |-> AllEntry(entriesStore[entries[i]])])

\* a category file of three entries from two sites, two of them of one date,
\* and an all.json of two entries of one date
C8_Witness ==
    /\ Indexed
    /\ Len(contents) = 1
    /\ LET file == categoryStore[JsonFile(contents[1].name)]
       IN /\ Len(file) = 3
          /\ file[1].date > file[2].date
          /\ file[2].date = file[3].date
          /\ file[2].siteHash # file[3].siteHash
    /\ Len(allJson[1]) = 2
    /\ allJson[1][1].date = allJson[1][2].date

\* the last entry of the feeds that carries the identifier
LastOf(feed, entryHash) ==
    LET at == {i \in DOMAIN feed : feed[i].entryHash = entryHash}
    IN feed[CHOOSE i \in at : \A j \in at : j <= i]

(* C9 as stated. all.json is the same collection as the union of the        *)
(* per-category entries files: one summary for each entry of each site feed *)
(* of each category, also when two feeds carry the same title and link.     *)
C9_SameCollection ==
    Indexed =>
        LET all == allJson[1]
            cats == CategoryFiles(Len(contents))
        IN \A e \in Range(all) \cup Range(cats) : Count(all, e) = Count(cats, e)

(* C9 as amended. all.json holds exactly one summary for each entry         *)
(* identifier that occurs in the feeds, that of the occurrence materialized *)
(* last, with the category, site title and site identifier of that          *)
(* occurrence; it is the same collection as the per-category files when no  *)
(* two feed entries have the same identifier.                               *)
C9_OnePerIdentifier ==
    Indexed =>
        LET all == allJson[1]
            cats == CategoryFiles(Len(contents))
            feed == FeedOrderAll(Len(contents))
            ids == {feed[i].entryHash : i \in DOMAIN feed}
        IN /\ {all[i].entryHash : i \in DOMAIN all} = ids
           /\ Len(all) = Cardinality(ids)
           /\ \A i \in DOMAIN all : all[i] = LastOf(feed, all[i].entryHash)
           /\ \A i \in DOMAIN all : Count(cats, all[i]) >= 1
           /\ Len(feed) = Cardinality(ids) =>
                 \A e \in Range(all) \cup Range(cats) : Count(all, e) = Count(cats, e)

\* two sites carry an entry of one title and link, and another entry
C9_Witness ==
    /\ Indexed
    /\ Len(allJson[1]) = 2
    /\ Len(CategoryFiles(Len(contents))) = 3
    /\ \E i, j \in DOMAIN CategoryFiles(Len(contents)) :
          /\ CategoryFiles(Len(contents))[i].entryHash
                = CategoryFiles(Len(contents))[j].entryHash
          /\ CategoryFiles(Len(contents))[i].siteHash
                # CategoryFiles(Len(contents))[j].siteHash

(* C10. Site records are not overwritten within a pass: every site summary  *)
(* of the master category index has a record in the sites store, named by   *)
(* its siteHash, with the title, link, updatedAt and entries of the site    *)
(* file the summary was made from, also when two categories hold site       *)
(* files of one file name.                                                  *)
C10_OwnSiteRecord ==
    (pc \in {"createAllEntriesData", "loadEntryWithPuppeteer"} /\ dataIndex # <<>>) =>
        \A c \in DOMAIN contents :
            \A i \in DOMAIN contents[c].sites :
                LET site == contents[c].sites[i]
                    summary == dataIndex[1][c].sites[i]
                    file == JsonFile(summary.siteHash)
                IN /\ file \in DOMAIN sitesStore
                   /\ sitesStore[file] = SiteRecord(contents[c].name, site.file, site.body)

====
